---- MODULE Spec2Model ----
(***************************************************************************)
(* Job lifecycle pipeline of the summary service (src/app.py): the Flask   *)
(* handlers summarize, check_status and get_result, the background thread  *)
(* process_document with update_status, and the retry loop of              *)
(* call_grokx_api.  Handlers and threads run concurrently; every access to *)
(* redis_client, documents or processing_threads is one step.              *)
(* SpecLoss adds the loss of the cache; SpecLambda is the Lambda pair      *)
(* summarize.py / processor.py over the same cache and a DynamoDB table,   *)
(* SpecFail that pair with failing writes; SpecWorker is the queue worker  *)
(* worker.py; SpecFair is app.py under fair scheduling.                    *)
(*                                                                         *)
(* Python dicts are functions whose DOMAIN is the set of keys present, so  *)
(* "k in d" is k \in DOMAIN d.  Strings that are formatted from parts      *)
(* (error messages) are tuples of their parts.                             *)
(***************************************************************************)
EXTENDS Integers, Sequences, FiniteSets, TLC

\* ---------------------------------------------------------------- bounds
MaxSubmits == 2      \* submissions that pass the duplicate check
MaxHandlers == 2     \* HTTP requests being served at the same time
MaxLossSubmits == 1  \* the same, in the runs where the cache can be lost
MaxInvocations == 2  \* invocations of the processor Lambda
MaxFailInvocations == 1  \* the same, in the runs where writes can fail
MaxWorkers == 2      \* worker processes polling the Redis queue
MaxFairSubmits == 1  \* accepted submissions in the runs with fair scheduling

DocIds == {"d1"}
UnknownIds == {"d0"}     \* ids that no submission ever carries
QueryIds == DocIds \cup UnknownIds
Texts == {"", "a"}
Summaries == {"s1"}
Failures == <<"ConnectionError", "HTTP 503", "Timeout">>
Handlers == 1..MaxHandlers
ThreadIds == 1..MaxSubmits

\* ------------------------------------------------------- program constants
max_retries == 3
retry_delay == 2

None == "None"
NoMessage == <<>>
NoReply == [op |-> "none"]

VARIABLES
    redis,               \* redis_client: key summarize_status:<id> -> status
    documents,           \* documents: id -> record (a dict)
    processing_threads,  \* processing_threads: id -> thread
    threads,             \* the process_document threads started so far
    handlers,            \* the requests being served, one per slot
    reply,               \* the HTTP response produced by the last step
    lastSeen,            \* id -> the status check_status last answered
    returned             \* id -> the strings the summarizer returned for it

vars == <<redis, documents, processing_threads, threads, handlers, reply,
          lastSeen, returned>>

\* ---------------------------------------------------------------- helpers
RECURSIVE Pow2(_)
Pow2(n) == IF n = 0 THEN 1 ELSE 2 * Pow2(n - 1)

\* d[k] = v on a dict
DictSet(d, k, v) == [x \in DOMAIN d \cup {k} |-> IF x = k THEN v ELSE d[x]]

\* del d[k]
DictDel(d, k) == [x \in DOMAIN d \ {k} |-> d[x]]

\* d.get(k, default)
DictGet(d, k, default) == IF k \in DOMAIN d THEN d[k] ELSE default

\* redis_client.get(key): the value, or None for a missing key
RedisGet(d) == DictGet(redis, d, None)

IdleHandler == [op |-> "none", pc |-> "idle"]

\* a new request is served by the first free slot
Free(h) ==
    /\ handlers[h].pc = "idle"
    /\ \A g \in DOMAIN handlers : g < h => handlers[g].pc # "idle"
IdleThread == [pc |-> "idle"]
DoneThread == [pc |-> "done"]

\* threading.Thread(target=process_document, args=(document_id,)) once started:
\* the locals of process_document, call_grokx_api and update_status
StartedThread(d) ==
    [pc |-> "start", document_id |-> d,
     attempt |-> 0, posts |-> 0, delays |-> <<>>, outcome |-> "none", e |-> "",
     status |-> "", error_message |-> NoMessage, after |-> ""]

\* {} : a dict with no key
EmptyDict == [x \in {} |-> None]

Init ==
    /\ redis = EmptyDict
    /\ documents = EmptyDict
    /\ processing_threads = EmptyDict
    /\ threads = [t \in ThreadIds |-> IdleThread]
    /\ handlers = [h \in Handlers |-> IdleHandler]
    /\ reply = NoReply
    /\ lastSeen = EmptyDict
    /\ returned = [d \in QueryIds |-> {}]

\* ------------------------------------------------------------ POST /summarize
\* request.json: a JSON object with any of the two keys (missing keys are
\* what line 180 is about; one text stands for the bodies without an id)
Bodies ==
    {[document_id |-> d, text |-> t] : d \in DocIds, t \in Texts}
        \cup {[document_id |-> d] : d \in DocIds}
        \cup {[text |-> "a"]}
        \cup {EmptyDict}

\* the validation with "and" for "or"
MissingBoth(body) ==
    "document_id" \notin DOMAIN body /\ "text" \notin DOMAIN body

\* the validation of line 180
MissingParameters(body) ==
    "document_id" \notin DOMAIN body \/ "text" \notin DOMAIN body

\* submissions that passed the duplicate check (each starts one thread)
Accepted ==
    Cardinality({t \in DOMAIN threads : threads[t].pc # "idle"})
        + Cardinality({h \in DOMAIN handlers : handlers[h].pc \in {"set_status", "store"}})

\* the record summarize stores (created_at and updated_at left out)
NewDocument(d, text) ==
    [document_id |-> d, original_text |-> text, status |-> "processing"]

\* lines 175-194: parse, validate, read the cached status, answer a duplicate
SummarizeBegin(h, body) ==
    /\ Free(h)
    /\ UNCHANGED <<redis, documents, processing_threads, threads, lastSeen, returned>>
    /\ IF MissingParameters(body)
       THEN /\ reply' = [op |-> "summarize", keys |-> DOMAIN body, code |-> 400,
                         error |-> <<"Missing required parameters (document_id or text)">>]
            /\ UNCHANGED handlers
       ELSE IF ~ ({"document_id", "text"} \subseteq DOMAIN body)
       THEN \* body['document_id'] or body['text'] raises KeyError: line 222
            /\ reply' = [op |-> "summarize", keys |-> DOMAIN body, code |-> 500,
                         error |-> <<"KeyError">>]
            /\ UNCHANGED handlers
       ELSE IF RedisGet(body["document_id"]) = "processing"
       THEN /\ reply' = [op |-> "summarize", keys |-> DOMAIN body, code |-> 200,
                         status |-> "already_processing"]
            /\ UNCHANGED handlers
       ELSE /\ Accepted < Cardinality(DOMAIN threads)
            /\ handlers' = [handlers EXCEPT ![h] =
                   [op |-> "summarize", pc |-> "set_status",
                    document_id |-> body["document_id"], text |-> body["text"]]]
            /\ reply' = NoReply

\* line 197: redis_client.set(status key, "processing")
SummarizeSetStatus(h) ==
    /\ handlers[h].pc = "set_status"
    /\ redis' = DictSet(redis, handlers[h].document_id, "processing")
    /\ handlers' = [handlers EXCEPT ![h].pc = "store"]
    /\ reply' = NoReply
    /\ UNCHANGED <<documents, processing_threads, threads, lastSeen, returned>>

\* lines 200-212: store the document, start the thread
SummarizeStore(h) ==
    /\ handlers[h].pc = "store"
    /\ \E t \in DOMAIN threads :
        /\ threads[t].pc = "idle"
        /\ \A u \in DOMAIN threads : u < t => threads[u].pc # "idle"
        /\ documents' = DictSet(documents, handlers[h].document_id,
                                NewDocument(handlers[h].document_id, handlers[h].text))
        /\ threads' = [threads EXCEPT ![t] =
               StartedThread(handlers[h].document_id)]
        /\ handlers' = [handlers EXCEPT ![h] =
               [op |-> "summarize", pc |-> "register",
                document_id |-> handlers[h].document_id, text |-> handlers[h].text,
                thread |-> t]]
    /\ reply' = NoReply
    /\ UNCHANGED <<redis, processing_threads, lastSeen, returned>>

\* lines 215-220: register the thread, answer ok
SummarizeRegister(h) ==
    /\ handlers[h].pc = "register"
    /\ processing_threads' =
           DictSet(processing_threads, handlers[h].document_id, handlers[h].thread)
    /\ reply' = [op |-> "summarize", keys |-> {"document_id", "text"},
                 code |-> 200, status |-> "ok"]
    /\ handlers' = [handlers EXCEPT ![h] = IdleHandler]
    /\ UNCHANGED <<redis, documents, threads, lastSeen, returned>>

\* ------------------------------------------------ GET /check-status/<id>
\* lines 230-232, 241: read the cached status, answer a hit
CheckStatusBegin(h, d) ==
    /\ Free(h)
    /\ IF RedisGet(d) # None
       THEN /\ reply' = [op |-> "check_status", document_id |-> d, code |-> 200,
                         status |-> RedisGet(d)]
            /\ lastSeen' = DictSet(lastSeen, d, RedisGet(d))
            /\ UNCHANGED handlers
       ELSE /\ handlers' = [handlers EXCEPT ![h] =
                   [op |-> "check_status", pc |-> "lookup", document_id |-> d]]
            /\ reply' = NoReply
            /\ UNCHANGED lastSeen
    /\ UNCHANGED <<redis, documents, processing_threads, threads, returned>>

\* the lookup without the test of line 234: a missing document reads as a
\* record without a status
CheckStatusLookupAny(h) ==
    /\ handlers[h].pc = "lookup"
    /\ handlers' = [handlers EXCEPT ![h] =
           [op |-> "check_status", pc |-> "repopulate",
            document_id |-> handlers[h].document_id,
            status |-> DictGet(DictGet(documents, handlers[h].document_id,
                                       EmptyDict),
                               "status", "unknown")]]
    /\ reply' = NoReply
    /\ UNCHANGED <<redis, documents, processing_threads, threads, lastSeen, returned>>

\* lines 234-239: a cache miss reads the document; 404 when there is none
CheckStatusLookup(h) ==
    /\ handlers[h].pc = "lookup"
    /\ IF handlers[h].document_id \in DOMAIN documents
       THEN /\ handlers' = [handlers EXCEPT ![h] =
                   [op |-> "check_status", pc |-> "repopulate",
                    document_id |-> handlers[h].document_id,
                    status |-> DictGet(documents[handlers[h].document_id],
                                       "status", "unknown")]]
            /\ reply' = NoReply
       ELSE /\ reply' = [op |-> "check_status",
                         document_id |-> handlers[h].document_id, code |-> 404,
                         error |-> <<"Document not found">>]
            /\ handlers' = [handlers EXCEPT ![h] = IdleHandler]
    /\ UNCHANGED <<redis, documents, processing_threads, threads, lastSeen, returned>>

\* a repopulate that writes through: the status goes to the record as well
CheckStatusRepopulateThrough(h) ==
    /\ handlers[h].pc = "repopulate"
    /\ redis' = DictSet(redis, handlers[h].document_id, handlers[h].status)
    /\ documents' =
           IF handlers[h].document_id \in DOMAIN documents
           THEN DictSet(documents, handlers[h].document_id,
                        DictSet(documents[handlers[h].document_id], "status",
                                handlers[h].status))
           ELSE documents
    /\ reply' = [op |-> "check_status", document_id |-> handlers[h].document_id,
                 code |-> 200, status |-> handlers[h].status]
    /\ lastSeen' = DictSet(lastSeen, handlers[h].document_id, handlers[h].status)
    /\ handlers' = [handlers EXCEPT ![h] = IdleHandler]
    /\ UNCHANGED <<processing_threads, threads, returned>>

\* lines 237, 241: write the document's status to the cache and answer it
CheckStatusRepopulate(h) ==
    /\ handlers[h].pc = "repopulate"
    /\ redis' = DictSet(redis, handlers[h].document_id, handlers[h].status)
    /\ reply' = [op |-> "check_status", document_id |-> handlers[h].document_id,
                 code |-> 200, status |-> handlers[h].status]
    /\ lastSeen' = DictSet(lastSeen, handlers[h].document_id, handlers[h].status)
    /\ handlers' = [handlers EXCEPT ![h] = IdleHandler]
    /\ UNCHANGED <<documents, processing_threads, threads, returned>>

\* ------------------------------------------------------ GET /result/<id>
\* lines 251-254, 261, 268-276: read the cached status and branch on it
GetResultBegin(h, d) ==
    /\ Free(h)
    /\ IF RedisGet(d) \in {"completed", "error"}
       THEN /\ handlers' = [handlers EXCEPT ![h] =
                   [op |-> "get_result", pc |-> "fetch", document_id |-> d,
                    status |-> RedisGet(d)]]
            /\ reply' = NoReply
       ELSE IF RedisGet(d) = "processing"
       THEN /\ reply' = [op |-> "get_result", document_id |-> d, code |-> 200,
                         status |-> "processing"]
            /\ UNCHANGED handlers
       ELSE /\ reply' = [op |-> "get_result", document_id |-> d, code |-> 404,
                         error |-> <<"Result not found or not ready">>]
            /\ UNCHANGED handlers
    /\ UNCHANGED <<redis, documents, processing_threads, threads, lastSeen, returned>>

\* lines 255-260, 262-267, 276: read the document and answer
GetResultFetch(h) ==
    /\ handlers[h].pc = "fetch"
    /\ LET d == handlers[h].document_id IN
       reply' =
           IF d \notin DOMAIN documents
           THEN [op |-> "get_result", document_id |-> d, code |-> 404,
                 error |-> <<"Result not found or not ready">>]
           ELSE IF handlers[h].status = "completed"
           THEN [op |-> "get_result", document_id |-> d, code |-> 200,
                 status |-> "completed",
                 summary |-> DictGet(documents[d], "summary", "")]
           ELSE [op |-> "get_result", document_id |-> d, code |-> 200,
                 status |-> "error",
                 error |-> DictGet(documents[d], "error_message",
                                   <<"An error occurred">>)]
    /\ handlers' = [handlers EXCEPT ![h] = IdleHandler]
    /\ UNCHANGED <<redis, documents, processing_threads, threads, lastSeen, returned>>

\* ------------------------------------------------------- process_document
\* the call update_status(document_id, status, error_message) made by thread t,
\* after which process_document goes on at `after`
CallUpdateStatus(th, status, error_message, after) ==
    [th EXCEPT !.pc = "update_redis", !.status = status,
               !.error_message = error_message, !.after = after]

\* lines 121-133: read the document and its text, pick the first status
ProcessStart(t) ==
    /\ threads[t].pc = "start"
    /\ LET d == threads[t].document_id
           text == DictGet(documents[d], "original_text", "")
       IN threads' = [threads EXCEPT ![t] =
              IF d \notin DOMAIN documents
              THEN CallUpdateStatus(@, "error", <<"Document not found">>, "finally")
              ELSE IF text = ""
              THEN CallUpdateStatus(@, "error", <<"No text found to summarize">>,
                                    "finally")
              ELSE CallUpdateStatus(@, "processing", NoMessage, "call")]
    /\ reply' = NoReply
    /\ UNCHANGED <<redis, documents, processing_threads, handlers, lastSeen, returned>>

\* line 160: update_status writes the status to Redis (the locals of the
\* call_grokx_api that has returned or raised are dead from here on)
UpdateStatusRedis(t) ==
    /\ threads[t].pc = "update_redis"
    /\ redis' = DictSet(redis, threads[t].document_id, threads[t].status)
    /\ threads' = [threads EXCEPT ![t] =
           [StartedThread(@.document_id) EXCEPT
               !.pc = "update_document", !.status = threads[t].status,
               !.error_message = threads[t].error_message,
               !.after = threads[t].after]]
    /\ reply' = NoReply
    /\ UNCHANGED <<documents, processing_threads, handlers, lastSeen, returned>>

\* the document after lines 164-168
UpdatedDocument(doc, status, error_message) ==
    IF error_message # NoMessage /\ status = "error"
    THEN DictSet(DictSet(doc, "status", status), "error_message", error_message)
    ELSE DictSet(doc, "status", status)

\* lines 163-168: update_status writes the status to the stored document
UpdateStatusDocument(t) ==
    /\ threads[t].pc = "update_document"
    /\ LET d == threads[t].document_id IN
       documents' =
           IF d \in DOMAIN documents
           THEN DictSet(documents, d,
                        UpdatedDocument(documents[d], threads[t].status,
                                        threads[t].error_message))
           ELSE documents
    /\ threads' = [threads EXCEPT ![t].pc = threads[t].after]
    /\ reply' = NoReply
    /\ UNCHANGED <<redis, processing_threads, handlers, lastSeen, returned>>

\* ---------------------------------------------------------- call_grokx_api
\* an except clause that catches every Exception
CatchesAll(outcome) == outcome \in {"transient", "malformed"}

\* line 106: the failures the except clause catches (requests' exceptions);
\* the plain Exception of line 104 is not one of them
IsRequestException(outcome) == outcome = "transient"

\* a constant delay instead of the exponential one
BackoffConstant(attempt) == retry_delay

\* line 109: retry_delay * (2 ** attempt)
Backoff(attempt) == retry_delay * Pow2(attempt)

\* line 111: the message of the exception raised after the last attempt
ExhaustedMessage(e) ==
    <<"Failed to call GrokX API after ", ToString(max_retries), " attempts: ", e>>

\* line 104
UnexpectedFormat == <<"Unexpected API response format">>

\* lines 88-102, 139-143: an attempt returns a summary; process_document
\* stores it in the document and calls update_status('completed')
CallApiSuccess(t, summary) ==
    /\ threads[t].pc = "call"
    /\ threads[t].attempt < max_retries
    /\ LET d == threads[t].document_id IN
       /\ documents' = DictSet(documents, d, DictSet(documents[d], "summary", summary))
       /\ returned' = [returned EXCEPT ![d] = @ \cup {summary}]
    /\ threads' = [threads EXCEPT ![t] =
           CallUpdateStatus([@ EXCEPT !.posts = @ + 1, !.outcome = "ok"],
                            "completed", NoMessage, "finally")]
    /\ reply' = NoReply
    /\ UNCHANGED <<redis, processing_threads, handlers, lastSeen>>

\* process_document without its except clause: what call_grokx_api raises
\* ends the thread through the finally clause alone
AfterFailureUncaught(th, outcome, e) ==
    LET made == [th EXCEPT !.posts = @ + 1, !.outcome = outcome, !.e = e] IN
    IF IsRequestException(outcome) /\ th.attempt < max_retries - 1
    THEN [made EXCEPT !.delays = Append(@, Backoff(th.attempt)),
                      !.attempt = @ + 1]
    ELSE [made EXCEPT !.pc = "finally"]

\* the thread after an attempt failed with `outcome` (lines 103-111, 145-147):
\* sleep and go round the loop, or raise into process_document's handler
AfterFailure(th, outcome, e) ==
    LET made == [th EXCEPT !.posts = @ + 1, !.outcome = outcome, !.e = e] IN
    IF IsRequestException(outcome)
    THEN IF th.attempt < max_retries - 1
         THEN [made EXCEPT !.delays = Append(@, Backoff(th.attempt)),
                           !.attempt = @ + 1]
         ELSE CallUpdateStatus(made, "error", ExhaustedMessage(e), "finally")
    ELSE CallUpdateStatus(made, "error", UnexpectedFormat, "finally")

\* lines 88-95, 106-111: the request fails (connection error, timeout, 4xx/5xx)
CallApiTransient(t, e) ==
    /\ threads[t].pc = "call"
    /\ threads[t].attempt < max_retries
    /\ threads' = [threads EXCEPT ![t] = AfterFailure(@, "transient", e)]
    /\ reply' = NoReply
    /\ UNCHANGED <<redis, documents, processing_threads, handlers, lastSeen, returned>>

\* lines 100-104: HTTP success whose body has no choices
CallApiMalformed(t) ==
    /\ threads[t].pc = "call"
    /\ threads[t].attempt < max_retries
    /\ threads' = [threads EXCEPT ![t] = AfterFailure(@, "malformed", "")]
    /\ reply' = NoReply
    /\ UNCHANGED <<redis, documents, processing_threads, handlers, lastSeen, returned>>

\* line 113 is never reached: the third pass of the loop returns or raises

\* lines 149-152: the finally clause removes the thread's registry entry
ProcessFinally(t) ==
    /\ threads[t].pc = "finally"
    /\ processing_threads' =
           IF threads[t].document_id \in DOMAIN processing_threads
           THEN DictDel(processing_threads, threads[t].document_id)
           ELSE processing_threads
    /\ threads' = [threads EXCEPT ![t] = DoneThread]
    /\ reply' = NoReply
    /\ UNCHANGED <<redis, documents, handlers, lastSeen, returned>>

\* ------------------------------------------------------------ specification
HandlerStep(h) ==
    \/ \E body \in Bodies : SummarizeBegin(h, body)
    \/ SummarizeSetStatus(h)
    \/ SummarizeStore(h)
    \/ SummarizeRegister(h)
    \/ \E d \in QueryIds : CheckStatusBegin(h, d)
    \/ CheckStatusLookup(h)
    \/ CheckStatusRepopulate(h)
    \/ \E d \in QueryIds : GetResultBegin(h, d)
    \/ GetResultFetch(h)

ThreadStep(t) ==
    \/ ProcessStart(t)
    \/ UpdateStatusRedis(t)
    \/ UpdateStatusDocument(t)
    \/ \E summary \in Summaries : CallApiSuccess(t, summary)
    \/ CallApiTransient(t, Failures[threads[t].posts + 1])
    \/ CallApiMalformed(t)
    \/ ProcessFinally(t)

Next ==
    \/ \E h \in DOMAIN handlers : HandlerStep(h)
    \/ \E t \in DOMAIN threads : ThreadStep(t)

Spec == Init /\ [][Next]_vars

\* ------------------------------------------------- the cache can be lost
\* Redis (or the MockRedis dict that stands in for it) holds the statuses in
\* memory only: a restart or a flush removes every key, while documents stays
CacheLoss ==
    /\ redis # EmptyDict
    /\ redis' = EmptyDict
    /\ reply' = NoReply
    /\ UNCHANGED <<documents, processing_threads, threads, handlers, lastSeen,
                   returned>>

InitLoss ==
    /\ redis = EmptyDict
    /\ documents = EmptyDict
    /\ processing_threads = EmptyDict
    /\ threads = [t \in 1..MaxLossSubmits |-> IdleThread]
    /\ handlers = [h \in Handlers |-> IdleHandler]
    /\ reply = NoReply
    /\ lastSeen = EmptyDict
    /\ returned = [d \in QueryIds |-> {}]

NextLoss ==
    \/ Next
    \/ CacheLoss

SpecLoss == InitLoss /\ [][NextLoss]_vars

\* ---------------------------------------- the Lambda pair: summarize.py
\* The API Lambda (summarize.py) and the processor Lambda (processor.py) keep
\* the statuses in the same Redis keys and the jobs as items of a DynamoDB
\* table: here `redis` is that cache, `documents` the table (id -> item),
\* `handlers` the API invocations and `threads` the processor invocations.
\* handle_check_status (summarize.py 125-159) and handle_get_result (161-218)
\* are check_status and get_result of app.py with table.get_item for the
\* lookup in documents, so the steps CheckStatus* and GetResult* serve both.

\* API invocations that will invoke the processor, and processor invocations
\* made so far
Invoked ==
    Cardinality({t \in DOMAIN threads : threads[t].pc # "idle"})
        + Cardinality({h \in DOMAIN handlers :
                          handlers[h].pc \in {"l_set_status", "put_item", "invoke"}})

\* summarize.py 61-84: parse, validate, read the cached status; any cached
\* status answers already_processing
HandleSummarizeBegin(h, body) ==
    /\ Free(h)
    /\ UNCHANGED <<redis, documents, processing_threads, threads, lastSeen, returned>>
    /\ IF MissingParameters(body)
       THEN /\ reply' = [op |-> "summarize", keys |-> DOMAIN body, code |-> 400,
                         error |-> <<"Missing required parameters (document_id or text)">>]
            /\ UNCHANGED handlers
       ELSE IF RedisGet(body["document_id"]) # None
       THEN /\ reply' = [op |-> "summarize", keys |-> DOMAIN body, code |-> 200,
                         status |-> "already_processing"]
            /\ UNCHANGED handlers
       ELSE /\ Invoked < Cardinality(DOMAIN threads)
            /\ handlers' = [handlers EXCEPT ![h] =
                   [op |-> "summarize", pc |-> "l_set_status",
                    document_id |-> body["document_id"], text |-> body["text"]]]
            /\ reply' = NoReply

\* summarize.py 87: redis_client.set(status key, "processing")
HandleSummarizeSetStatus(h) ==
    /\ handlers[h].pc = "l_set_status"
    /\ redis' = DictSet(redis, handlers[h].document_id, "processing")
    /\ handlers' = [handlers EXCEPT ![h].pc = "put_item"]
    /\ reply' = NoReply
    /\ UNCHANGED <<documents, processing_threads, threads, lastSeen, returned>>

\* summarize.py 90-99: table.put_item replaces the item of the id
HandleSummarizePutItem(h) ==
    /\ handlers[h].pc = "put_item"
    /\ documents' = DictSet(documents, handlers[h].document_id,
                            NewDocument(handlers[h].document_id, handlers[h].text))
    /\ handlers' = [handlers EXCEPT ![h].pc = "invoke"]
    /\ reply' = NoReply
    /\ UNCHANGED <<redis, processing_threads, threads, lastSeen, returned>>

\* an invocation of processor.lambda_handler with event {'document_id': d}
StartedInvocation(d) == [StartedThread(d) EXCEPT !.pc = "p_start"]

\* summarize.py 102-115: invoke the processor asynchronously, answer ok
HandleSummarizeInvoke(h) ==
    /\ handlers[h].pc = "invoke"
    /\ \E t \in DOMAIN threads :
        /\ threads[t].pc = "idle"
        /\ \A u \in DOMAIN threads : u < t => threads[u].pc # "idle"
        /\ threads' = [threads EXCEPT ![t] = StartedInvocation(handlers[h].document_id)]
    /\ reply' = [op |-> "summarize", keys |-> {"document_id", "text"},
                 code |-> 200, status |-> "ok"]
    /\ handlers' = [handlers EXCEPT ![h] = IdleHandler]
    /\ UNCHANGED <<redis, documents, processing_threads, lastSeen, returned>>

\* ------------------------------------------ the processor Lambda: processor.py
\* processor.py 26-31: the Lambda is invoked with an event that names d by
\* something other than an accepted submission: an asynchronous event that is
\* delivered again, or an event for an id that has no item
ProcessorInvoke(d) ==
    /\ Invoked < Cardinality(DOMAIN threads)
    /\ \E t \in DOMAIN threads :
        /\ threads[t].pc = "idle"
        /\ \A u \in DOMAIN threads : u < t => threads[u].pc # "idle"
        /\ threads' = [threads EXCEPT ![t] = StartedInvocation(d)]
    /\ reply' = NoReply
    /\ UNCHANGED <<redis, documents, processing_threads, handlers, lastSeen, returned>>

\* the call update_status(document_id, status, error_message) of processor.py,
\* after which lambda_handler returns
ProcessorCallUpdateStatus(th, status, error_message) ==
    [th EXCEPT !.pc = "p_update_redis", !.status = status,
               !.error_message = error_message, !.after = "done"]

\* processor.py 33-50: get the item and its text; a missing item and an
\* empty text go to update_status('error'), anything else to the summarizer
ProcessorStart(t) ==
    /\ threads[t].pc = "p_start"
    /\ LET d == threads[t].document_id IN
       threads' = [threads EXCEPT ![t] =
           IF d \notin DOMAIN documents
           THEN ProcessorCallUpdateStatus(@, "error", <<"Document not found">>)
           ELSE IF DictGet(documents[d], "original_text", "") = ""
           THEN ProcessorCallUpdateStatus(@, "error", <<"No text found to summarize">>)
           ELSE [@ EXCEPT !.pc = "p_call"]]
    /\ reply' = NoReply
    /\ UNCHANGED <<redis, documents, processing_threads, handlers, lastSeen, returned>>

\* processor.py 151: update_status writes the status to Redis first
ProcessorUpdateStatusRedis(t) ==
    /\ threads[t].pc = "p_update_redis"
    /\ redis' = DictSet(redis, threads[t].document_id, threads[t].status)
    /\ threads' = [threads EXCEPT ![t] =
           [StartedThread(@.document_id) EXCEPT
               !.pc = "p_update_item", !.status = threads[t].status,
               !.error_message = threads[t].error_message,
               !.after = threads[t].after]]
    /\ reply' = NoReply
    /\ UNCHANGED <<documents, processing_threads, handlers, lastSeen, returned>>

\* the item table.update_item works on: the item of the key, or a new item
\* with just the key when there is none
ItemOf(d) == DictGet(documents, d, [document_id |-> d])

\* processor.py 154-169: update_status sets status (and error_message) on the
\* item with table.update_item; lambda_handler then returns
ProcessorUpdateStatusItem(t) ==
    /\ threads[t].pc = "p_update_item"
    /\ LET d == threads[t].document_id IN
       documents' = DictSet(documents, d,
                            UpdatedDocument(ItemOf(d), threads[t].status,
                                            threads[t].error_message))
    /\ threads' = [threads EXCEPT ![t] = DoneThread]
    /\ reply' = NoReply
    /\ UNCHANGED <<redis, processing_threads, handlers, lastSeen, returned>>

\* processor.py 50-62: an attempt returns a summary; table.update_item sets
\* summary and status 'completed' in one write
ProcessorCallSuccess(t, summary) ==
    /\ threads[t].pc = "p_call"
    /\ threads[t].attempt < max_retries
    /\ LET d == threads[t].document_id IN
       /\ documents' = DictSet(documents, d,
              DictSet(DictSet(ItemOf(d), "summary", summary), "status", "completed"))
       /\ returned' = [returned EXCEPT ![d] = @ \cup {summary}]
    /\ threads' = [threads EXCEPT ![t] =
           [StartedThread(@.document_id) EXCEPT !.pc = "p_set_completed"]]
    /\ reply' = NoReply
    /\ UNCHANGED <<redis, processing_threads, handlers, lastSeen>>

\* processor.py 65-70: write 'completed' to Redis and return
ProcessorSetCompleted(t) ==
    /\ threads[t].pc = "p_set_completed"
    /\ redis' = DictSet(redis, threads[t].document_id, "completed")
    /\ threads' = [threads EXCEPT ![t] = DoneThread]
    /\ reply' = NoReply
    /\ UNCHANGED <<documents, processing_threads, handlers, lastSeen, returned>>

\* processor.py 83-143 is the retry loop of app.py; what it raises is caught
\* at line 72 and goes to update_status('error', str(e)) (lines 75-76)
ProcessorAfterFailure(th, outcome, e) ==
    LET next == AfterFailure(th, outcome, e) IN
    IF next.pc = "update_redis"
    THEN ProcessorCallUpdateStatus(next, next.status, next.error_message)
    ELSE next

\* processor.py 116-127, 136-141: the request fails
ProcessorCallTransient(t, e) ==
    /\ threads[t].pc = "p_call"
    /\ threads[t].attempt < max_retries
    /\ threads' = [threads EXCEPT ![t] = ProcessorAfterFailure(@, "transient", e)]
    /\ reply' = NoReply
    /\ UNCHANGED <<redis, documents, processing_threads, handlers, lastSeen, returned>>

\* processor.py 130-134: HTTP success whose body has no choices
ProcessorCallMalformed(t) ==
    /\ threads[t].pc = "p_call"
    /\ threads[t].attempt < max_retries
    /\ threads' = [threads EXCEPT ![t] = ProcessorAfterFailure(@, "malformed", "")]
    /\ reply' = NoReply
    /\ UNCHANGED <<redis, documents, processing_threads, handlers, lastSeen, returned>>

HandleStep(h) ==
    \/ \E body \in Bodies : HandleSummarizeBegin(h, body)
    \/ HandleSummarizeSetStatus(h)
    \/ HandleSummarizePutItem(h)
    \/ HandleSummarizeInvoke(h)
    \/ \E d \in QueryIds : CheckStatusBegin(h, d)
    \/ CheckStatusLookup(h)
    \/ CheckStatusRepopulate(h)
    \/ \E d \in QueryIds : GetResultBegin(h, d)
    \/ GetResultFetch(h)

ProcessorStep(t) ==
    \/ ProcessorStart(t)
    \/ ProcessorUpdateStatusRedis(t)
    \/ ProcessorUpdateStatusItem(t)
    \/ \E summary \in Summaries : ProcessorCallSuccess(t, summary)
    \/ ProcessorCallTransient(t, Failures[threads[t].posts + 1])
    \/ ProcessorCallMalformed(t)
    \/ ProcessorSetCompleted(t)

InitLambda ==
    /\ redis = EmptyDict
    /\ documents = EmptyDict
    /\ processing_threads = EmptyDict
    /\ threads = [t \in 1..MaxInvocations |-> IdleThread]
    /\ handlers = [h \in Handlers |-> IdleHandler]
    /\ reply = NoReply
    /\ lastSeen = EmptyDict
    /\ returned = [d \in QueryIds |-> {}]

NextLambda ==
    \/ \E h \in DOMAIN handlers : HandleStep(h)
    \/ \E t \in DOMAIN threads : ProcessorStep(t)
    \/ \E d \in QueryIds : ProcessorInvoke(d)

SpecLambda == InitLambda /\ [][NextLambda]_vars

\* ------------------------------------- the Lambda pair with failing writes
\* A call to Redis or to DynamoDB can raise (connection lost, throttling).
\* summarize.py catches it at line 117 and answers 500; processor.py catches
\* it at line 72 and calls update_status('error', str(e)); update_status
\* catches it at line 170 and only prints.

\* summarize.py 87, 117-122: redis_client.set raises
HandleSummarizeSetStatusFails(h) ==
    /\ handlers[h].pc = "l_set_status"
    /\ reply' = [op |-> "summarize", keys |-> {"document_id", "text"},
                 document_id |-> handlers[h].document_id, code |-> 500,
                 error |-> <<"ConnectionError">>]
    /\ handlers' = [handlers EXCEPT ![h] = IdleHandler]
    /\ UNCHANGED <<redis, documents, processing_threads, threads, lastSeen, returned>>

\* summarize.py 91-99, 117-122: table.put_item raises
HandleSummarizePutItemFails(h) ==
    /\ handlers[h].pc = "put_item"
    /\ reply' = [op |-> "summarize", keys |-> {"document_id", "text"},
                 document_id |-> handlers[h].document_id, code |-> 500,
                 error |-> <<"ClientError">>]
    /\ handlers' = [handlers EXCEPT ![h] = IdleHandler]
    /\ UNCHANGED <<redis, documents, processing_threads, threads, lastSeen, returned>>

\* summarize.py 102-108, 117-122: lambda_client.invoke raises
HandleSummarizeInvokeFails(h) ==
    /\ handlers[h].pc = "invoke"
    /\ reply' = [op |-> "summarize", keys |-> {"document_id", "text"},
                 document_id |-> handlers[h].document_id, code |-> 500,
                 error |-> <<"ClientError">>]
    /\ handlers' = [handlers EXCEPT ![h] = IdleHandler]
    /\ UNCHANGED <<redis, documents, processing_threads, threads, lastSeen, returned>>

\* processor.py 34-36, 72-76: table.get_item raises
ProcessorStartFails(t) ==
    /\ threads[t].pc = "p_start"
    /\ threads' = [threads EXCEPT ![t] =
           ProcessorCallUpdateStatus(@, "error", <<"ClientError">>)]
    /\ reply' = NoReply
    /\ UNCHANGED <<redis, documents, processing_threads, handlers, lastSeen, returned>>

\* processor.py 50-62, 72-76: the summarizer returns a summary and the
\* table.update_item that should store it raises
ProcessorCallSuccessFails(t, summary) ==
    /\ threads[t].pc = "p_call"
    /\ threads[t].attempt < max_retries
    /\ returned' = [returned EXCEPT ![threads[t].document_id] = @ \cup {summary}]
    /\ threads' = [threads EXCEPT ![t] =
           ProcessorCallUpdateStatus(StartedThread(@.document_id),
                                     "error", <<"ClientError">>)]
    /\ reply' = NoReply
    /\ UNCHANGED <<redis, documents, processing_threads, handlers, lastSeen>>

\* processor.py 65, 72-76: the item is completed and redis_client.set raises
ProcessorSetCompletedFails(t) ==
    /\ threads[t].pc = "p_set_completed"
    /\ threads' = [threads EXCEPT ![t] =
           ProcessorCallUpdateStatus(@, "error", <<"ConnectionError">>)]
    /\ reply' = NoReply
    /\ UNCHANGED <<redis, documents, processing_threads, handlers, lastSeen, returned>>

\* processor.py 151, 170-172: redis_client.set raises inside update_status,
\* which skips the table update and returns
ProcessorUpdateStatusRedisFails(t) ==
    /\ threads[t].pc = "p_update_redis"
    /\ threads' = [threads EXCEPT ![t] = DoneThread]
    /\ reply' = NoReply
    /\ UNCHANGED <<redis, documents, processing_threads, handlers, lastSeen, returned>>

\* processor.py 165-172: table.update_item raises inside update_status
ProcessorUpdateStatusItemFails(t) ==
    /\ threads[t].pc = "p_update_item"
    /\ threads' = [threads EXCEPT ![t] = DoneThread]
    /\ reply' = NoReply
    /\ UNCHANGED <<redis, documents, processing_threads, handlers, lastSeen, returned>>

HandleFails(h) ==
    \/ HandleSummarizeSetStatusFails(h)
    \/ HandleSummarizePutItemFails(h)
    \/ HandleSummarizeInvokeFails(h)

ProcessorFails(t) ==
    \/ ProcessorStartFails(t)
    \/ \E summary \in Summaries : ProcessorCallSuccessFails(t, summary)
    \/ ProcessorSetCompletedFails(t)
    \/ ProcessorUpdateStatusRedisFails(t)
    \/ ProcessorUpdateStatusItemFails(t)

InitFail ==
    /\ redis = EmptyDict
    /\ documents = EmptyDict
    /\ processing_threads = EmptyDict
    /\ threads = [t \in 1..MaxFailInvocations |-> IdleThread]
    /\ handlers = [h \in Handlers |-> IdleHandler]
    /\ reply = NoReply
    /\ lastSeen = EmptyDict
    /\ returned = [d \in QueryIds |-> {}]

NextFail ==
    \/ NextLambda
    \/ \E h \in DOMAIN handlers : HandleFails(h)
    \/ \E t \in DOMAIN threads : ProcessorFails(t)

SpecFail == InitFail /\ [][NextFail]_vars

\* --------------------------------------------- the queue worker: worker.py
\* worker.py keeps everything in Redis: the list summarize_queue and, per id,
\* the keys summarize_text, summarize_status, summarize_result and
\* summarize_error.  Here `redis` maps these keys (a pair of prefix and id) to
\* their values and `threads` are the worker processes, each in the loop of
\* process_queue.  Nothing in the repository pushes to summarize_queue: the
\* queue and the texts are given at the start.
QueueKey == <<"summarize_queue", "">>
TextKey(d) == <<"summarize_text", d>>
StatusKey(d) == <<"summarize_status", d>>
ResultKey(d) == <<"summarize_result", d>>
ErrorKey(d) == <<"summarize_error", d>>

\* the queues the worker may find: the submitted id once or twice, with or
\* without an id that has no text
WorkerQueues == {<<"d1">>, <<"d1", "d1">>, <<"d1", "d0">>, <<"d0", "d1">>}

\* a worker at the top of the while loop of process_queue
PollingWorker == [pc |-> "w_poll"]

\* the message of the exception call_xai_api raises after the last attempt
\* (worker.py 147) or for a response without choices (worker.py 126)
WorkerFailures ==
    {<<"Failed to call X.AI API after ", ToString(max_retries), " attempts: ", "Timeout">>,
     UnexpectedFormat}

InitWorker ==
    /\ \E q \in WorkerQueues :
           redis = DictSet(DictSet(EmptyDict, QueueKey, q), TextKey("d1"), "a")
    /\ documents = EmptyDict
    /\ processing_threads = EmptyDict
    /\ threads = [w \in 1..MaxWorkers |-> PollingWorker]
    /\ handlers = [h \in Handlers |-> IdleHandler]
    /\ reply = NoReply
    /\ lastSeen = EmptyDict
    /\ returned = [d \in QueryIds |-> {}]

\* the call update_status(document_id, status, error_message) of worker.py,
\* after which the worker goes on at `after`
WorkerCallUpdateStatus(th, status, error_message, after) ==
    [pc |-> "w_set_status", document_id |-> th.document_id, status |-> status,
     error_message |-> error_message, after |-> after]

\* worker.py 209-211: lpop takes the first id off the list
WorkerPop(w) ==
    /\ threads[w].pc = "w_poll"
    /\ redis[QueueKey] # <<>>
    /\ redis' = DictSet(redis, QueueKey, Tail(redis[QueueKey]))
    /\ threads' = [threads EXCEPT ![w] =
           [pc |-> "w_get_text", document_id |-> Head(redis[QueueKey])]]
    /\ reply' = NoReply
    /\ UNCHANGED <<documents, processing_threads, handlers, lastSeen, returned>>

\* worker.py 215-220, 236-238: read the text; without one update_status writes
\* 'error', with one update_status writes 'processing'
WorkerGetText(w) ==
    /\ threads[w].pc = "w_get_text"
    /\ threads' = [threads EXCEPT ![w] =
           IF DictGet(redis, TextKey(@.document_id), None) \in {None, ""}
           THEN WorkerCallUpdateStatus(@, "error", <<"No text found to summarize">>,
                                       "w_poll")
           ELSE WorkerCallUpdateStatus(@, "processing", NoMessage, "w_call")]
    /\ reply' = NoReply
    /\ UNCHANGED <<redis, documents, processing_threads, handlers, lastSeen, returned>>

\* worker.py 60: update_status sets the status key
WorkerUpdateStatus(w) ==
    /\ threads[w].pc = "w_set_status"
    /\ redis' = DictSet(redis, StatusKey(threads[w].document_id), threads[w].status)
    /\ threads' = [threads EXCEPT ![w] =
           IF @.error_message # NoMessage /\ @.status = "error"
           THEN [@ EXCEPT !.pc = "w_set_error"]
           ELSE IF @.after = "w_poll" THEN PollingWorker
           ELSE [pc |-> @.after, document_id |-> @.document_id]]
    /\ reply' = NoReply
    /\ UNCHANGED <<documents, processing_threads, handlers, lastSeen, returned>>

\* worker.py 63-65: update_status sets the error key; the loop goes round
WorkerUpdateError(w) ==
    /\ threads[w].pc = "w_set_error"
    /\ redis' = DictSet(redis, ErrorKey(threads[w].document_id),
                        threads[w].error_message)
    /\ threads' = [threads EXCEPT ![w] = PollingWorker]
    /\ reply' = NoReply
    /\ UNCHANGED <<documents, processing_threads, handlers, lastSeen, returned>>

\* worker.py 223-226: call_xai_api returns a summary, which is set as result
WorkerCallSuccess(w, summary) ==
    /\ threads[w].pc = "w_call"
    /\ redis' = DictSet(redis, ResultKey(threads[w].document_id), summary)
    /\ returned' = [returned EXCEPT ![threads[w].document_id] = @ \cup {summary}]
    /\ threads' = [threads EXCEPT ![w] =
           WorkerCallUpdateStatus(@, "completed", NoMessage, "w_poll")]
    /\ reply' = NoReply
    /\ UNCHANGED <<documents, processing_threads, handlers, lastSeen>>

\* worker.py 232-235: call_xai_api raises; update_status('error', str(e))
WorkerCallFails(w, message) ==
    /\ threads[w].pc = "w_call"
    /\ threads' = [threads EXCEPT ![w] =
           WorkerCallUpdateStatus(@, "error", message, "w_poll")]
    /\ reply' = NoReply
    /\ UNCHANGED <<redis, documents, processing_threads, handlers, lastSeen, returned>>

\* worker.py 247-258: SIGINT or SIGTERM ends the process at once with
\* sys.exit(0), wherever the loop is; the worker that is started in its place
\* begins at the top of the loop
WorkerStop(w) ==
    /\ threads[w].pc # "w_poll"
    /\ threads' = [threads EXCEPT ![w] = PollingWorker]
    /\ reply' = NoReply
    /\ UNCHANGED <<redis, documents, processing_threads, handlers, lastSeen, returned>>

WorkerStep(w) ==
    \/ WorkerPop(w)
    \/ WorkerGetText(w)
    \/ WorkerUpdateStatus(w)
    \/ WorkerUpdateError(w)
    \/ \E summary \in Summaries : WorkerCallSuccess(w, summary)
    \/ \E message \in WorkerFailures : WorkerCallFails(w, message)

NextWorker ==
    \/ \E w \in DOMAIN threads : WorkerStep(w)
    \/ \E w \in DOMAIN threads : WorkerStop(w)

\* a worker that is not stopped goes on: its loop has no blocking call other
\* than the requests to the summarizer, which time out after 60 s
SpecWorker ==
    /\ InitWorker
    /\ [][NextWorker]_vars
    /\ \A w \in 1..MaxWorkers : WF_vars(WorkerStep(w))

\* ------------------------------------------------ app.py, fairly scheduled
\* the steps of a request that has begun: Flask runs each handler to its end
HandlerContinue(h) ==
    \/ SummarizeSetStatus(h)
    \/ SummarizeStore(h)
    \/ SummarizeRegister(h)
    \/ CheckStatusLookup(h)
    \/ CheckStatusRepopulate(h)
    \/ GetResultFetch(h)

InitFair ==
    /\ redis = EmptyDict
    /\ documents = EmptyDict
    /\ processing_threads = EmptyDict
    /\ threads = [t \in 1..MaxFairSubmits |-> IdleThread]
    /\ handlers = [h \in Handlers |-> IdleHandler]
    /\ reply = NoReply
    /\ lastSeen = EmptyDict
    /\ returned = [d \in QueryIds |-> {}]

\* every started thread and every begun request keeps being scheduled, every
\* summarizer attempt returns (requests.post has a timeout), and no write
\* fails; requests arrive or not
SpecFair ==
    /\ InitFair
    /\ [][Next]_vars
    /\ \A t \in 1..MaxFairSubmits : WF_vars(ThreadStep(t))
    /\ \A h \in Handlers : WF_vars(HandlerContinue(h))

\* ------------------------------------------------------------------ claims
\* The code has no 'queued' status: summarize writes 'processing' both for a
\* job waiting for its thread and for one being summarized.
Terminal == {"completed", "error"}

\* C1: the statuses check-status reports for an id never regress: a report
\* stays what it was, or moves from processing to completed or to error.
C1_MonotonicStatus ==
    [][\A d \in DOMAIN lastSeen :
          \/ lastSeen'[d] = lastSeen[d]
          \/ lastSeen[d] = "processing" /\ lastSeen'[d] \in Terminal]_vars

\* the stored job of d is queued or being processed
JobInProgress(d) ==
    d \in DOMAIN documents /\ documents[d].status = "processing"

\* C2: a submission that arrives while the id's stored job is in progress is
\* not accepted as new: it does not pass the duplicate check, so it replaces
\* no record and starts no second thread.
C2_IdempotentSubmission ==
    [][\A h \in DOMAIN handlers :
          handlers[h].pc = "idle" /\ handlers'[h].pc = "set_status"
              => ~ JobInProgress(handlers'[h].document_id)]_vars

\* the summary and error_message a record carries
ResultFields(doc) ==
    [k \in DOMAIN doc \cap {"summary", "error_message"} |-> doc[k]]

\* C3: once a stored job is completed or error, no step changes its status,
\* its summary or its error_message.
C3_TerminalIsFinal ==
    [][\A d \in DOMAIN documents :
          documents[d].status \in Terminal
              => /\ d \in DOMAIN documents'
                 /\ documents'[d].status = documents[d].status
                 /\ ResultFields(documents'[d]) = ResultFields(documents[d])]_vars

\* thread t has not yet begun to write a final status
Unfinished(t) ==
    \/ threads[t].pc \in {"start", "call"}
    \/ threads[t].pc \in {"update_redis", "update_document"}
           /\ threads[t].status = "processing"

\* a submission of d was answered ok and its thread is still unfinished
InFlight(d) ==
    \E t \in DOMAIN threads :
        /\ Unfinished(t)
        /\ threads[t].document_id = d
        /\ \A h \in DOMAIN handlers :
               handlers[h].pc = "register" => handlers[h].thread # t

\* C4: while an accepted submission of an id is still unfinished, check-status
\* answers processing for that id.
C4_NoStaleTerminal ==
    (reply.op = "check_status" /\ reply.code = 200 /\ InFlight(reply.document_id))
        => reply.status = "processing"

\* C5: a completed answer of /result carries a string the summarizer returned
\* for that id.
C5_RoundTrip ==
    (reply.op = "get_result" /\ reply.code = 200 /\ reply.status = "completed")
        => reply.summary \in returned[reply.document_id]

\* C6: a record has a summary exactly when it is completed and an
\* error_message exactly when it is error.
C6_ResultFieldsMatchStatus ==
    \A d \in DOMAIN documents :
        /\ "summary" \in DOMAIN documents[d] <=> documents[d].status = "completed"
        /\ "error_message" \in DOMAIN documents[d] <=> documents[d].status = "error"

\* C7: the original_text of a stored job never changes.
C7_OriginalTextWriteOnce ==
    [][\A d \in DOMAIN documents :
          /\ d \in DOMAIN documents'
          /\ documents'[d].original_text = documents[d].original_text]_vars

\* what the retry loop must produce when all three attempts fail
ScheduleOfThree == <<2, 4>>
ExhaustedAfterThree ==
    <<"Failed to call GrokX API after ", "3", " attempts: ", "Timeout">>

\* the thread's call has just ended, or is still in its loop
InCall(t) == threads[t].pc \in {"call", "update_redis"}

\* the write of update_status by thread t lands in the stored job
WritesError(t, message) ==
    (threads[t].pc = "update_document" /\ threads'[t].pc # "update_document"
         /\ threads[t].error_message = message)
        => /\ threads'[t].pc = "finally"
           /\ documents'[threads[t].document_id].status = "error"
           /\ documents'[threads[t].document_id].error_message = message

\* a raised error stays the argument of update_status until it is written
KeepsError(t, message) ==
    (threads[t].pc = "update_redis" /\ threads[t].error_message = message)
        => /\ threads'[t].pc \in {"update_redis", "update_document"}
           /\ threads'[t].status = "error"
           /\ threads'[t].error_message = message

\* C8: the delays slept are 2 s then 4 s, one after each failed attempt but
\* the third; three transient failures in a row are exactly three requests
\* and raise the error citing 3 attempts and the last failure, which the
\* thread writes to the job as status error.
C8_RetrySchedule ==
    /\ [](\A t \in DOMAIN threads :
            InCall(t) =>
                /\ threads[t].posts <= 3
                /\ Len(threads[t].delays) <= 2
                /\ threads[t].delays =
                       SubSeq(ScheduleOfThree, 1, Len(threads[t].delays))
                /\ threads[t].outcome = "transient" =>
                       Len(threads[t].delays) =
                           (IF threads[t].posts < 3 THEN threads[t].posts ELSE 2)
                /\ (threads[t].outcome = "transient" /\ threads[t].posts = 3) =>
                       /\ threads[t].pc = "update_redis"
                       /\ threads[t].delays = ScheduleOfThree
                       /\ threads[t].status = "error"
                       /\ threads[t].error_message = ExhaustedAfterThree)
    /\ [][\A t \in DOMAIN threads :
            /\ KeepsError(t, ExhaustedAfterThree)
            /\ WritesError(t, ExhaustedAfterThree)]_vars

\* three failed attempts ended a job in error
C8_Witness ==
    \E d \in DOMAIN documents :
        /\ documents[d].status = "error"
        /\ "error_message" \in DOMAIN documents[d]
        /\ documents[d].error_message = ExhaustedAfterThree

\* C9: a response without choices ends the call at once: no delay follows it,
\* no further request is made, and the thread writes status error with the
\* description of that failure to the job.
C9_MalformedNotRetried ==
    /\ [](\A t \in DOMAIN threads :
            (InCall(t) /\ threads[t].outcome = "malformed") =>
                /\ threads[t].pc = "update_redis"
                /\ Len(threads[t].delays) = threads[t].posts - 1
                /\ threads[t].status = "error"
                /\ threads[t].error_message = <<"Unexpected API response format">>)
    /\ [][\A t \in DOMAIN threads :
            /\ KeepsError(t, <<"Unexpected API response format">>)
            /\ WritesError(t, <<"Unexpected API response format">>)]_vars

\* the first response had no choices: one request, no delay, and the job
\* has been written as error
C9_Witness ==
    \E t \in DOMAIN threads :
        /\ threads[t].pc = "finally"
        /\ threads[t].error_message = <<"Unexpected API response format">>
        /\ documents[threads[t].document_id].status = "error"
        /\ documents[threads[t].document_id].error_message =
               <<"Unexpected API response format">>

\* C10: a submission without document_id or without text is answered 400 in
\* the step that receives it, and that step changes no cached status, no
\* document, no thread, no registry entry and leaves no request in progress.
C10_InvalidRejected ==
    [][(reply'.op = "summarize" /\ reply'.keys # {"document_id", "text"})
          => /\ reply'.code = 400
             /\ UNCHANGED <<redis, documents, processing_threads, threads,
                            handlers>>]_vars

\* an invalid submission was rejected while a job was stored and running
C10_Witness ==
    /\ reply.op = "summarize"
    /\ reply.code = 400
    /\ reply.keys = {"document_id"}
    /\ documents # EmptyDict
    /\ \E t \in DOMAIN threads : threads[t].pc = "call"

\* C11: check-status for an id that no submission ever carried answers 404,
\* whatever has been submitted or processed for other ids, and no cached
\* status and no record exists for such an id in any reachable state.
C11_UnknownIdNotFound ==
    /\ \A d \in UnknownIds : d \notin DOMAIN redis /\ d \notin DOMAIN documents
    /\ (reply.op = "check_status" /\ reply.document_id \in UnknownIds)
           => reply.code = 404

\* check-status answered 404 for the unknown id while another id's job was
\* stored and completed
C11_Witness ==
    /\ reply.op = "check_status"
    /\ reply.document_id \in UnknownIds
    /\ reply.code = 404
    /\ \E d \in DOMAIN documents : documents[d].status = "completed"

\* what /result has to answer for a stored job: 200 with the status, the
\* summary of a completed job, the error message of a failed one, and
\* nothing but the status otherwise
AnswersJob(r, doc) ==
    /\ r.code = 200
    /\ r.status = doc.status
    /\ doc.status = "completed" =>
           "summary" \in DOMAIN r /\ r.summary = DictGet(doc, "summary", "")
    /\ doc.status = "error" =>
           "error" \in DOMAIN r /\ r.error = DictGet(doc, "error_message", NoMessage)
    /\ doc.status \notin Terminal => DOMAIN r \cap {"summary", "error"} = {}

\* C12: /result answers by the state of the stored job: completed with the
\* summary, error with the error message, just the status in every other
\* state, and 404 only for an id that has no job.
C12_ResultByJobState ==
    (reply.op = "get_result" /\ reply.document_id \in DOMAIN documents)
        => AnswersJob(reply, documents[reply.document_id])

\* the stored job of d is completed or error
JobTerminal(d) ==
    d \in DOMAIN documents /\ documents[d].status \in Terminal

\* C13: a submission that arrives when the id's stored job is completed or
\* error is not accepted as new: it does not pass the duplicate check, so the
\* record, its text and result and the cached status stay as they are and no
\* thread is started for it.
C13_TerminalResubmissionNoOp ==
    [][\A h \in DOMAIN handlers :
          handlers[h].pc = "idle" /\ handlers'[h].pc = "set_status"
              => ~ JobTerminal(handlers'[h].document_id)]_vars

\* thread t is about to write the failure of its call to the job
CapturedFailure(th) ==
    /\ th.pc = "update_redis"
    /\ th.status = "error"
    /\ th.error_message # NoMessage
    /\ th.after = "finally"

\* C14: a failure of the summarizer call (a failed request after the last
\* attempt, a response without choices) becomes the argument of
\* update_status('error', message), which writes status error and that message
\* to the job; every answer to a valid submission is 200 with ok or
\* already_processing and carries no error, whatever its thread has done.
C14_FailureCaptured ==
    /\ [](reply.op = "summarize" /\ reply.keys = {"document_id", "text"}
              => /\ reply.code = 200
                 /\ reply.status \in {"ok", "already_processing"}
                 /\ "error" \notin DOMAIN reply)
    /\ [][\A t \in DOMAIN threads :
            /\ (threads[t].pc = "call" /\ threads'[t] # threads[t])
                   => \/ threads'[t].pc = "call"
                      \/ threads'[t].outcome = "ok"
                      \/ CapturedFailure(threads'[t])
            /\ (threads[t].pc \in {"update_redis", "update_document"}
                    /\ threads[t].status = "error")
                   => /\ threads[t].error_message # NoMessage
                      /\ KeepsError(t, threads[t].error_message)
                      /\ WritesError(t, threads[t].error_message)]_vars

\* a submission is answered ok although its thread has already failed and
\* the failure is in the job
C14_Witness ==
    /\ reply.op = "summarize"
    /\ reply.code = 200
    /\ reply.status = "ok"
    /\ \E d \in DOMAIN documents :
        /\ documents[d].status = "error"
        /\ "error_message" \in DOMAIN documents[d]
        /\ documents[d].error_message = UnexpectedFormat

\* the places of summarize after the duplicate check of line 190 has let the
\* request through
PastCheck == {"set_status", "store", "register"}

\* C15: of the submissions of one id that are being served at the same time,
\* at most one has passed the duplicate check.
C15_AtomicDedup ==
    \A g, h \in DOMAIN handlers :
        (g # h /\ handlers[g].pc \in PastCheck /\ handlers[h].pc \in PastCheck)
            => handlers[g].document_id # handlers[h].document_id

\* C16: a worker that starts on an id whose stored job is already completed
\* or error does not go on to call the summarizer and does not set the job
\* back to processing.
C16_DuplicateDeliveryNoOp ==
    [][\A t \in DOMAIN threads :
          (threads[t].pc \in {"start", "p_start"}
               /\ JobTerminal(threads[t].document_id)
               /\ threads'[t] # threads[t])
              => /\ threads'[t].pc \notin {"call", "p_call"}
                 /\ threads'[t].status # "processing"]_vars

\* C17: a read of a stored job that finds no cached status is still answered
\* from the stored job: check-status and /result never answer such a read
\* with 404.
C17_CacheLossInvisible ==
    [][(reply'.op \in {"check_status", "get_result"}
           /\ reply'.document_id \in DOMAIN documents
           /\ RedisGet(reply'.document_id) = None)
          => reply'.code = 200]_vars

\* C18: when check-status has missed the cache and repopulates it, the status
\* it answers and the status it leaves in the cache are the status the
\* stored job has at that moment.
C18_RepopulateMatchesStore ==
    [][\A h \in DOMAIN handlers :
          (handlers[h].pc = "repopulate" /\ handlers'[h].pc = "idle")
              => /\ handlers[h].document_id \in DOMAIN documents'
                 /\ reply'.status = documents'[handlers[h].document_id].status
                 /\ redis'[handlers[h].document_id] =
                        documents'[handlers[h].document_id].status]_vars

\* C19: for an id that was never submitted, whatever is delivered to a
\* worker, there is no cached status and no stored job, no worker is in the
\* summarizer call for it, and check-status answers 404.
C19_StrayDeliveryDropped ==
    \A d \in UnknownIds :
        /\ d \notin DOMAIN redis
        /\ d \notin DOMAIN documents
        /\ \A t \in DOMAIN threads :
               threads[t].pc \in {"call", "p_call"} => threads[t].document_id # d
        /\ (reply.op = "check_status" /\ reply.document_id = d) => reply.code = 404

\* C20: when a worker writes a status to the cache, the stored job already
\* has that status.
C20_StoreBeforeCache ==
    [][\A t \in DOMAIN threads :
          (threads[t].pc \in {"update_redis", "p_update_redis", "p_set_completed"}
               /\ threads'[t] # threads[t])
              => /\ threads[t].document_id \in DOMAIN documents
                 /\ documents[threads[t].document_id].status =
                        redis'[threads[t].document_id]]_vars

\* no worker is at work on d
NoWorkerFor(d) ==
    \A t \in DOMAIN threads :
        threads[t].pc \in {"idle", "done"} \/ threads[t].document_id # d

\* C21: when the workers of an id have ended and its stored job still has
\* status processing (the write of the final state did not reach the Store),
\* the cache does not show completed or error for it either.
C21_StuckInProcessing ==
    \A d \in DOMAIN documents :
        (NoWorkerFor(d) /\ documents[d].status = "processing")
            => RedisGet(d) \notin Terminal

\* what str(e) is when a Redis call raised
CacheFailure == <<"ConnectionError">>

\* C22: update_status goes on to the Store write whether or not its cache
\* write succeeded, and the error handling of a failed cache write changes no
\* item that is completed.
C22_CacheFailureTolerated ==
    [][\A t \in DOMAIN threads :
          /\ (threads[t].pc = "p_update_redis" /\ threads'[t] # threads[t])
                 => threads'[t].pc = "p_update_item"
          /\ (threads[t].pc = "p_update_item"
                  /\ threads[t].error_message = CacheFailure
                  /\ JobTerminal(threads[t].document_id)
                  /\ documents[threads[t].document_id].status = "completed")
                 => documents'[threads[t].document_id].status = "completed"]_vars

\* the status worker.py holds for d
WorkerStatus(d) == DictGet(redis, StatusKey(d), None)

\* C23: an id that was in the queue with its text eventually has the status
\* completed or error, also when workers are stopped after taking it.
C23_AtLeastOnce ==
    \A d \in DocIds : <>(WorkerStatus(d) \in Terminal)

\* the statuses that are the workers' to write
WorkerStatuses == {"processing", "completed", "error"}

\* C24: the status summarize writes for a submission it accepts, to the cache
\* and in the record, is none of processing, completed and error.
C24_ServiceWritesQueued ==
    [][\A h \in DOMAIN handlers :
          /\ (handlers[h].pc = "set_status" /\ handlers'[h].pc = "store")
                 => redis'[handlers[h].document_id] \notin WorkerStatuses
          /\ (handlers[h].pc = "store" /\ handlers'[h].pc = "register")
                 => documents'[handlers[h].document_id].status
                        \notin WorkerStatuses]_vars

\* the operations that are queries
Queries == {"check_status", "get_result"}

\* the step is one of a status or result query
IsQueryStep ==
    \/ reply'.op \in Queries
    \/ \E h \in DOMAIN handlers :
           /\ handlers'[h] # handlers[h]
           /\ handlers[h].op \in Queries \/ handlers'[h].op \in Queries

\* C25: a step of check-status or /result changes no record, no thread, no
\* registry entry and no summarizer result; if it changes the cache, it is
\* the repopulating write of check-status after a miss and it sets only the
\* entry of the queried id.
C25_QueriesReadOnly ==
    [][IsQueryStep =>
          /\ UNCHANGED <<documents, threads, processing_threads, returned>>
          /\ redis' # redis =>
                 \E h \in DOMAIN handlers :
                     /\ handlers[h].pc = "repopulate"
                     /\ handlers'[h].pc = "idle"
                     /\ redis' = DictSet(redis, handlers[h].document_id,
                                         handlers[h].status)]_vars

\* check-status answered from a repopulated entry: the cache was lost, the
\* job has ended, and the stale entry can only have been written by a query
C25_Witness ==
    /\ reply.op = "check_status"
    /\ reply.code = 200
    /\ reply.status = "processing"
    /\ JobTerminal(reply.document_id)
    /\ NoWorkerFor(reply.document_id)
    /\ RedisGet(reply.document_id) = "processing"

\* the status check-status answers for d: the cached one, else the record's
ObservedStatus(d) ==
    IF RedisGet(d) # None THEN RedisGet(d)
    ELSE IF d \in DOMAIN documents THEN DictGet(documents[d], "status", "unknown")
    ELSE None

\* C26: once a submission of an id has been accepted and stored, the status
\* check-status answers for the id is eventually completed or error and
\* stays so.
C26_EventuallyTerminal ==
    \A d \in DocIds :
        [](d \in DOMAIN documents => <>[](ObservedStatus(d) \in Terminal))

\* C27: when a submission is answered 500, the cache holds no status
\* processing for its id afterwards.
C27_FailedSubmissionLeavesNothing ==
    [][(reply'.op = "summarize" /\ reply'.code = 500)
          => DictGet(redis', reply'.document_id, None) # "processing"]_vars

\* no request for d is being served and no worker is at work on d
Quiescent(d) ==
    /\ NoWorkerFor(d)
    /\ \A h \in DOMAIN handlers :
           handlers[h].pc = "idle" \/ handlers[h].document_id # d

\* C28: when nothing is in progress for an id, a cached status of the id is
\* the status of its stored record.
C28_QuiescentAgreement ==
    \A d \in DOMAIN redis :
        Quiescent(d) => /\ d \in DOMAIN documents
                        /\ redis[d] = documents[d].status

\* C29: the thread a registry entry names has not ended, and a thread that
\* ends removes no entry that names another thread.
C29_RegistryTracksThreads ==
    /\ [](\A d \in DOMAIN processing_threads :
              threads[processing_threads[d]].pc # "done")
    /\ [][\A t \in DOMAIN threads :
            (/\ threads[t].pc = "finally"
             /\ threads'[t].pc = "done"
             /\ threads[t].document_id \in DOMAIN processing_threads
             /\ processing_threads[threads[t].document_id] # t)
                => processing_threads' = processing_threads]_vars

====
